---- MODULE Spec2Model ----
(***************************************************************************)
(* Model of the typed command mapping layer of rustis:                     *)
(*   src/resp/command_args.rs        CommandArgs (the argument buffer)     *)
(*   src/commands/generic_commands.rs GenericCommands and the builders     *)
(*                                    Copy, Expire, Restore, Scan          *)
(*   src/commands/server_commands.rs  ServerCommands (flushdb, flushall)   *)
(*                                                                         *)
(* A token is one element of CommandArgs.args (a Vec<u8>); it is written   *)
(* as a string.  A Command is a name plus the token sequence of its        *)
(* CommandArgs.  One caller drives the layer: it builds a Command through  *)
(* a direct method or a builder, hands it to the Sender, awaits the        *)
(* decoded result and only then makes its next call.                       *)
(***************************************************************************)
EXTENDS Integers, Sequences, FiniteSets, TLC

VARIABLES
    args,       \* CommandArgs.args of the buffer under construction
    built,      \* CommandArgs.args of the buffer the last build() returned
    lastCall,   \* the last CommandArgs method called on args, with its inputs
    builder,    \* the builder value held by the caller (Copy/Expire/Restore/Scan)
    call,       \* the terminal call in flight: Command, Sender invocations, outcome
    loop        \* the caller's cursor loop around scan

vars == <<args, built, lastCall, builder, call, loop>>

(***************************************************************************)
(* Bounds                                                                  *)
(***************************************************************************)
MaxArgs == 3        \* CommandArgs calls made on one buffer
MaxMods == 3        \* modifier calls chained on one builder
MaxKeys == 2        \* length of a key collection handed to del/exists/unlink
MaxIter == 3        \* value at which the loop's iteration counter saturates
NumTags == 2        \* tags telling consecutive builder values apart

(***************************************************************************)
(* Rendering of numeric arguments                                          *)
(***************************************************************************)
Digit(d) ==
    CASE d = 0 -> "0" [] d = 1 -> "1" [] d = 2 -> "2" [] d = 3 -> "3"
      [] d = 4 -> "4" [] d = 5 -> "5" [] d = 6 -> "6" [] d = 7 -> "7"
      [] d = 8 -> "8" [] d = 9 -> "9"

RECURSIVE DecimalNat(_)
DecimalNat(n) ==
    IF n < 10 THEN Digit(n) ELSE DecimalNat(n \div 10) \o Digit(n % 10)

\* decimal text of an integer (u64, usize, i64)
Decimal(n) == IF n < 0 THEN "-" \o DecimalNat(0 - n) ELSE DecimalNat(n)

\* decimal text of an f64 given in tenths: no exponent, '.' as separator
DecimalF64(t) ==
    IF t < 0 THEN "-" \o DecimalNat((0 - t) \div 10) \o "." \o Digit((0 - t) % 10)
    ELSE DecimalNat(t \div 10) \o "." \o Digit(t % 10)

(***************************************************************************)
(* Argument values (the types implementing ToArgs)                         *)
(***************************************************************************)
StrArg(s)  == [t |-> "str",  n |-> 0, s |-> s,  c |-> <<>>]   \* &str, BulkString
IntArg(n)  == [t |-> "int",  n |-> n, s |-> "", c |-> <<>>]   \* u64, usize, i64
F64Arg(x)  == [t |-> "f64",  n |-> x, s |-> "", c |-> <<>>]   \* f64, in tenths
CollArg(c) == [t |-> "coll", n |-> 0, s |-> "", c |-> c]      \* collection of keys

(***************************************************************************)
(* CommandArgs                                                             *)
(***************************************************************************)
\* CommandArgs::write_arg: self.args.push(buf.to_vec())
write_arg(self, buf) == Append(self, buf)

\* ToArgs::write_args: one write_arg per scalar, one per element of a collection
RECURSIVE write_coll(_, _)
write_coll(c, self) ==
    IF c = <<>> THEN self ELSE write_coll(Tail(c), write_arg(self, Head(c)))

write_args(a, self) ==
    CASE a.t = "str"  -> write_arg(self, a.s)
      [] a.t = "int"  -> write_arg(self, Decimal(a.n))
      [] a.t = "f64"  -> write_arg(self, DecimalF64(a.n))
      [] a.t = "coll" -> write_coll(a.c, self)

\* CommandArgs::arg
arg(self, a) == write_args(a, self)

\* CommandArgs::arg_ref
arg_ref(self, a) == write_args(a, self)

arg_if_inverted(self, condition, a) == IF condition THEN self ELSE arg(self, a)

\* CommandArgs::arg_if
arg_if(self, condition, a) == IF condition THEN arg(self, a) ELSE self

build_clone(self) == [self |-> self, returned |-> self]

\* CommandArgs::build: a default buffer swapped with self; what self holds
\* afterwards and what is returned
build(self) == [self |-> <<>>, returned |-> self]

\* CommandArgs::len and CommandArgs::is_empty
len(self) == Len(self)
is_empty(self) == len(self) = 0

(***************************************************************************)
(* Command                                                                 *)
(***************************************************************************)
\* cmd(name): a Command with the given name and an empty CommandArgs
cmd(name) == [name |-> name, args |-> <<>>]

\* Command::arg: appends the value's tokens to the Command's CommandArgs
Command_arg(c, a) == [c EXCEPT !.args = arg(@, a)]

(***************************************************************************)
(* Inputs                                                                  *)
(***************************************************************************)
Keys == {"key", "DB"}
ArgValues ==
    { StrArg("NX"), StrArg("key"), IntArg(25), F64Arg(5),
      CollArg(<<>>), CollArg(<<"a", "b">>) }

U64s == {0, 7, 120}                 \* seconds, milliseconds, timestamps
DbIndexes == {0, 3}                 \* destination_db: usize
Ttls == {0, 25}                     \* ttl: u64
Payloads == {"payload", "REPLACE"}  \* serialized_value: Vec<u8>
IdleTimes == {-1, 10}               \* seconds: i64
Freqs == {5, 25}                    \* frequency: f64, in tenths
Cursors == {0, 17, 120}             \* cursor: u64
Patterns == {"k*", "COUNT"}
Counts == {1, 10}                   \* count: usize
Types == {"string", "TYPE"}
FlushingModes == {"Default", "Async", "Sync"}

\* sequences over S of length 0..n
RECURSIVE SeqsUpTo(_, _)
SeqsUpTo(S, n) ==
    IF n = 0 THEN {<<>>}
    ELSE LET shorter == SeqsUpTo(S, n - 1)
         IN  shorter \cup {Append(q, x) : q \in shorter, x \in S}

\* the values of a one-or-many key parameter (SingleArgOrCollection)
KeyArgs == {StrArg(k) : k \in Keys} \cup {CollArg(c) : c \in SeqsUpTo(Keys, MaxKeys)}

(***************************************************************************)
(* Replies of the Sender and results handed to the caller                  *)
(***************************************************************************)
Transport    == [t |-> "transport", n |-> 0, s |-> "", a |-> <<>>]  \* no reply at all
NilR         == [t |-> "nil",   n |-> 0, s |-> "",  a |-> <<>>]
IntR(n)      == [t |-> "int",   n |-> n, s |-> "",  a |-> <<>>]
BulkR(s)     == [t |-> "bulk",  n |-> 0, s |-> s,   a |-> <<>>]
ArrayR(a)    == [t |-> "array", n |-> 0, s |-> "",  a |-> a]
ErrorR(msg)  == [t |-> "error", n |-> 0, s |-> msg, a |-> <<>>]

Batches == {<<>>, <<BulkR("key")>>, <<BulkR("key"), BulkR("DB")>>}
ScanReplies == {ArrayR(<<IntR(c), ArrayR(b)>>) : c \in Cursors, b \in Batches}
Outcomes ==
    { Transport, NilR, IntR(0), IntR(1), ErrorR("ERR no such key"),
      BulkR("payload"), BulkR("17"), BulkR("<00 ff fe>"), BulkR(""),
      ArrayR(<<>>), ArrayR(<<IntR(17)>>),
      ArrayR(<<IntR(0), ArrayR(<<>>)>>), ArrayR(<<IntR(17), ArrayR(<<BulkR("key")>>)>>) }

NoValue == [kind |-> "none", b |-> FALSE, n |-> 0, s |-> "", a |-> <<>>]
Ok(v)          == [ok |-> TRUE,  err |-> "", msg |-> "", v |-> v]
Err(kind, msg) == [ok |-> FALSE, err |-> kind, msg |-> msg, v |-> NoValue]
BoolV(b)    == [NoValue EXCEPT !.kind = "bool", !.b = b]
IntV(n)     == [NoValue EXCEPT !.kind = "int", !.n = n]
BytesV(s)   == [NoValue EXCEPT !.kind = "bytes", !.s = s]
UnitV       == [NoValue EXCEPT !.kind = "unit"]
PairV(n, a) == [NoValue EXCEPT !.kind = "pair", !.n = n, !.a = a]
ReplyV(r)   == [kind |-> r.t, b |-> FALSE, n |-> r.n, s |-> r.s, a |-> r.a]  \* Value
NoResult == Err("none", "")

(***************************************************************************)
(* State after construction                                                *)
(***************************************************************************)
NoCall == [op |-> "none", condition |-> FALSE, a |-> StrArg(""), before |-> <<>>, calls |-> 0]
NoBase == [method |-> "none", s1 |-> "", s2 |-> "", n |-> 0]
NoBuilder ==
    [kind |-> "none", tag |-> 0, phase |-> "None", cmd |-> cmd(""),
     base |-> NoBase, calls |-> <<>>, via |-> "", finals |-> 0]
NoTerminal ==
    [pc |-> "idle", method |-> "", input |-> StrArg(""), sent |-> <<>>,
     target |-> "", outcome |-> NilR, result |-> NoResult]
NoLoop == [state |-> "off", cursor |-> 0, asked |-> 0, iter |-> 0]

Init ==
    /\ args = <<>>              \* CommandArgs::default()
    /\ built = <<>>             \* build() not called yet
    /\ lastCall = NoCall
    /\ builder = NoBuilder
    /\ call = NoTerminal
    /\ loop = NoLoop

(***************************************************************************)
(* The Sender and the decoding of its reply                                *)
(***************************************************************************)
\* CommandSend::send: hands the Command to the Sender, once
send(c) ==
    [pc |-> "pending", method |-> "", input |-> StrArg(""), sent |-> <<c>>,
     target |-> "", outcome |-> NilR, result |-> NoResult]

\* CommandSend::send_into::<T>: send, then decode the reply as T
send_into(c, T) == [send(c) EXCEPT !.target = T]

\* the pending reply of send resolves: a transport failure or a Value;
\* an error reply is a failure carrying the store's message
send_await(o) ==
    CASE o.t = "transport" -> Err("transport", "")
      [] o.t = "error"     -> Err("store", o.s)
      [] OTHER             -> Ok(ReplyV(o))

\* FromValue for a batch: every element decodes or the whole batch fails
RECURSIVE batch_ok(_)
batch_ok(a) == a = <<>> \/ (Head(a).t = "bulk" /\ batch_ok(Tail(a)))

RECURSIVE batch_keys(_)
batch_keys(a) == IF a = <<>> THEN <<>> ELSE <<Head(a).s>> \o batch_keys(Tail(a))

\* FromValue::from_value for the target types the commands request
from_value(T, v) ==
    CASE T = "value" -> Ok(v)
      [] T = "unit"  -> Ok(UnitV)
      [] T = "bool"  ->
            IF v.kind = "int" THEN Ok(BoolV(v.n # 0)) ELSE Err("conversion", "bool")
      [] T = "int"   ->
            IF v.kind = "int" THEN Ok(IntV(v.n)) ELSE Err("conversion", "integer")
      [] T = "string" ->
            IF v.kind = "bulk" THEN Ok(BytesV(v.s)) ELSE Err("conversion", "string")
      [] T = "scan"  ->
            IF /\ v.kind = "array"
               /\ Len(v.a) >= 2
               /\ v.a[1].t = "int"
               /\ v.a[2].t = "array"
               /\ batch_ok(v.a[2].a)
            THEN Ok(PairV(v.a[1].n, batch_keys(v.a[2].a)))
            ELSE Err("conversion", "scan")

\* the pending result of send_into::<T> resolves
send_into_await(T, o) ==
    LET r == send_await(o) IN IF r.ok THEN from_value(T, r.v) ELSE r

\* ResultValueExt::into_unit
into_unit(r) == IF r.ok THEN Ok(UnitV) ELSE r

(***************************************************************************)
(* GenericCommands: direct methods                                         *)
(***************************************************************************)
del(keys_) == send_into(Command_arg(cmd("DEL"), keys_), "int")

dump(key) == send_into(Command_arg(cmd("DUMP"), StrArg(key)), "value")

dump_await_swallow(r) ==
    IF ~r.ok THEN Ok(BytesV(""))
    ELSE IF r.v.kind = "bulk" THEN Ok(BytesV(r.v.s))
    ELSE Err("internal", "Unexpected dump format")

dump_await_sniff(r) ==
    IF ~r.ok THEN r
    ELSE IF r.v.kind = "bulk" /\ r.v.s \notin {"", "17"} THEN Ok(BytesV(r.v.s))
    ELSE IF r.v.kind = "nil" THEN Ok(BytesV(""))
    ELSE Err("internal", "Unexpected dump format")

\* the async block of dump: fut.await?, then the match on the Value
dump_await(r) ==
    IF ~r.ok THEN r
    ELSE IF r.v.kind = "bulk" THEN Ok(BytesV(r.v.s))
    ELSE Err("internal", "Unexpected dump format")

exists(keys_) == send_into(Command_arg(cmd("EXISTS"), keys_), "int")

expiretime(key) == send_into(Command_arg(cmd("EXPIRETIME"), StrArg(key)), "int")

keys(pattern) == send_into(Command_arg(cmd("KEYS"), StrArg(pattern)), "value")

move_(key, db) ==
    send_into(Command_arg(Command_arg(cmd("MOVE"), StrArg(key)), IntArg(db)), "int")

object_encoding(key) ==
    send_into(Command_arg(Command_arg(cmd("OBJECT"), StrArg("ENCODING")), StrArg(key)), "value")

object_freq(key) ==
    send_into(Command_arg(Command_arg(cmd("OBJECT"), StrArg("FREQ")), StrArg(key)), "int")

object_idle_time(key) ==
    send_into(Command_arg(Command_arg(cmd("OBJECT"), StrArg("IDLETIME")), StrArg(key)), "int")

object_refcount(key) ==
    send_into(Command_arg(Command_arg(cmd("OBJECT"), StrArg("REFCOUNT")), StrArg(key)), "int")

persist(key) == send_into(Command_arg(cmd("PERSIST"), StrArg(key)), "bool")

pexpiretime(key) == send_into(Command_arg(cmd("PEXPIRETIME"), StrArg(key)), "int")

pttl(key) == send_into(Command_arg(cmd("PTTL"), StrArg(key)), "int")

randomkey == send_into(cmd("RANDOMKEY"), "value")

rename(key, new_key) ==
    send_into(Command_arg(Command_arg(cmd("RENAME"), StrArg(key)), StrArg(new_key)), "unit")

renamenx(key, new_key) ==
    send_into(Command_arg(Command_arg(cmd("RENAMENX"), StrArg(key)), StrArg(new_key)), "bool")

ttl(key) == send_into(Command_arg(cmd("TTL"), StrArg(key)), "int")

type_(key) == send_into(Command_arg(cmd("TYPE"), StrArg(key)), "string")

unlink_first_only(keys_) ==
    send_into(Command_arg(cmd("UNLINK"),
                          IF keys_.t = "coll" /\ Len(keys_.c) > 1
                          THEN CollArg(<<keys_.c[1]>>) ELSE keys_), "int")

unlink(keys_) == send_into(Command_arg(cmd("UNLINK"), keys_), "int")

(***************************************************************************)
(* ServerCommands                                                          *)
(***************************************************************************)
flushdb(flushing_mode) ==
    LET command == cmd("FLUSHDB") IN
    send(CASE flushing_mode = "Default" -> command
           [] flushing_mode = "Async"   -> Command_arg(command, StrArg("ASYNC"))
           [] flushing_mode = "Sync"    -> Command_arg(command, StrArg("SYNC")))

flushall_swapped(flushing_mode) ==
    LET command == cmd("FLUSHALL") IN
    send(CASE flushing_mode = "Default" -> command
           [] flushing_mode = "Async"   -> Command_arg(command, StrArg("SYNC"))
           [] flushing_mode = "Sync"    -> Command_arg(command, StrArg("ASYNC")))

flushall(flushing_mode) ==
    LET command == cmd("FLUSHALL") IN
    send(CASE flushing_mode = "Default" -> command
           [] flushing_mode = "Async"   -> Command_arg(command, StrArg("ASYNC"))
           [] flushing_mode = "Sync"    -> Command_arg(command, StrArg("SYNC")))

(***************************************************************************)
(* GenericCommands: builder constructors                                   *)
(***************************************************************************)
Built(kind, c) ==
    [kind |-> kind, tag |-> 0, phase |-> "Building", cmd |-> c,
     base |-> NoBase, calls |-> <<>>, via |-> "", finals |-> 0]

copy(source, destination) ==
    Built("Copy", Command_arg(Command_arg(cmd("COPY"), StrArg(source)), StrArg(destination)))

expire(key, seconds) ==
    Built("Expire", Command_arg(Command_arg(cmd("EXPIRE"), StrArg(key)), IntArg(seconds)))

expireat(key, unix_time_seconds) ==
    Built("Expire",
          Command_arg(Command_arg(cmd("EXPIREAT"), StrArg(key)), IntArg(unix_time_seconds)))

pexpire(key, milliseconds) ==
    Built("Expire", Command_arg(Command_arg(cmd("PEXPIRE"), StrArg(key)), IntArg(milliseconds)))

pexpireat(key, unix_time_milliseconds) ==
    Built("Expire",
          Command_arg(Command_arg(cmd("PEXPIREAT"), StrArg(key)), IntArg(unix_time_milliseconds)))

scan_from_zero(cursor) == Built("Scan", Command_arg(cmd("SCAN"), IntArg(0)))

scan(cursor) == Built("Scan", Command_arg(cmd("SCAN"), IntArg(cursor)))

restore(key, ttl_, serialized_value) ==
    Built("Restore",
          Command_arg(Command_arg(Command_arg(cmd("RESTORE"), StrArg(key)), IntArg(ttl_)),
                      StrArg(serialized_value)))

(***************************************************************************)
(* Builders: modifier and terminal methods                                 *)
(***************************************************************************)
Copy_db_value_first(self, destination_db) ==
    [self EXCEPT !.cmd = Command_arg(Command_arg(self.cmd, IntArg(destination_db)), StrArg("DB"))]

Copy_db(self, destination_db) ==
    [self EXCEPT !.cmd = Command_arg(Command_arg(self.cmd, StrArg("DB")), IntArg(destination_db))]

Copy_replace_front(self) ==
    [self EXCEPT !.cmd.args = SubSeq(@, 1, 2) \o <<"REPLACE">> \o SubSeq(@, 3, Len(@))]

Copy_replace(self) == [self EXCEPT !.cmd = Command_arg(self.cmd, StrArg("REPLACE"))]

Copy_execute(self) == send_into(self.cmd, "bool")

Expire_nx(self) == send_into(Command_arg(self.cmd, StrArg("NX")), "bool")

Expire_xx(self) == send_into(Command_arg(self.cmd, StrArg("XX")), "bool")

Expire_gt_as_lt(self) == send_into(Command_arg(self.cmd, StrArg("LT")), "bool")

Expire_gt(self) == send_into(Command_arg(self.cmd, StrArg("GT")), "bool")

Expire_lt(self) == send_into(Command_arg(self.cmd, StrArg("LT")), "bool")

Expire_execute(self) == send_into(self.cmd, "bool")

Restore_replace_dedup(self) ==
    IF \E i \in 1..Len(self.cmd.args) : self.cmd.args[i] = "REPLACE" THEN self
    ELSE [self EXCEPT !.cmd = Command_arg(self.cmd, StrArg("REPLACE"))]

Restore_replace(self) == [self EXCEPT !.cmd = Command_arg(self.cmd, StrArg("REPLACE"))]

Restore_abs_ttl(self) == [self EXCEPT !.cmd = Command_arg(self.cmd, StrArg("ABSTTL"))]

Restore_idle_time(self, seconds) ==
    [self EXCEPT !.cmd = Command_arg(Command_arg(self.cmd, StrArg("IDLETIME")), IntArg(seconds))]

Restore_freq(self, frequency) ==
    [self EXCEPT !.cmd = Command_arg(Command_arg(self.cmd, StrArg("FREQ")), F64Arg(frequency))]

Restore_execute(self) == send_into(self.cmd, "unit")

Scan_match_(self, pattern) ==
    [self EXCEPT !.cmd = Command_arg(Command_arg(self.cmd, StrArg("MATCH")), StrArg(pattern))]

Scan_count_bare(self, count) ==
    [self EXCEPT !.cmd = Command_arg(self.cmd, StrArg("COUNT"))]

Scan_count(self, count) ==
    [self EXCEPT !.cmd = Command_arg(Command_arg(self.cmd, StrArg("COUNT")), IntArg(count))]

Scan_type_(self, type__) ==
    [self EXCEPT !.cmd = Command_arg(Command_arg(self.cmd, StrArg("TYPE")), StrArg(type__))]

Scan_execute(self) == send_into(self.cmd, "scan")

(***************************************************************************)
(* Calls on a CommandArgs buffer                                           *)
(***************************************************************************)
Called(op, condition, a) ==
    [op |-> op, condition |-> condition, a |-> a, before |-> args,
     calls |-> lastCall.calls + 1]

CallArg ==
    \E a \in ArgValues :
        /\ lastCall.calls < MaxArgs
        /\ args' = arg(args, a)
        /\ lastCall' = Called("arg", TRUE, a)
        /\ UNCHANGED <<built, builder, call, loop>>

CallArgRef ==
    \E a \in ArgValues :
        /\ lastCall.calls < MaxArgs
        /\ args' = arg_ref(args, a)
        /\ lastCall' = Called("arg_ref", TRUE, a)
        /\ UNCHANGED <<built, builder, call, loop>>

CallArgIf ==
    \E condition \in BOOLEAN, a \in ArgValues :
        /\ lastCall.calls < MaxArgs
        /\ args' = arg_if(args, condition, a)
        /\ lastCall' = Called("arg_if", condition, a)
        /\ UNCHANGED <<built, builder, call, loop>>

CallBuild ==
    /\ lastCall.calls < MaxArgs
    /\ args' = build(args).self
    /\ built' = build(args).returned
    /\ lastCall' = Called("build", TRUE, StrArg(""))
    /\ UNCHANGED <<builder, call, loop>>

NextArgs == CallArg \/ CallArgRef \/ CallArgIf \/ CallBuild

SpecArgs == Init /\ [][NextArgs]_vars

(***************************************************************************)
(* The caller: constructing a builder                                      *)
(***************************************************************************)
NextTag == (builder.tag + 1) % NumTags

Base(method, s1, s2, n) == [method |-> method, s1 |-> s1, s2 |-> s2, n |-> n]

\* a freshly constructed builder value, with the inputs it was constructed from
Started(b, base) == [b EXCEPT !.tag = NextTag, !.base = base]

\* the caller holds no builder, awaits no result and runs no cursor loop
CanStart == call.pc = "idle" /\ loop.state = "off" /\ builder.kind = "none"

NewCopy ==
    \E source \in Keys, destination \in Keys :
        /\ CanStart
        /\ builder' = Started(copy(source, destination), Base("copy", source, destination, 0))
        /\ call' = NoTerminal
        /\ UNCHANGED <<args, built, lastCall, loop>>

NewExpire ==
    \E key \in Keys, seconds \in U64s :
        /\ CanStart
        /\ builder' = Started(expire(key, seconds), Base("expire", key, "", seconds))
        /\ call' = NoTerminal
        /\ UNCHANGED <<args, built, lastCall, loop>>

NewExpireat ==
    \E key \in Keys, unix_time_seconds \in U64s :
        /\ CanStart
        /\ builder' = Started(expireat(key, unix_time_seconds),
                              Base("expireat", key, "", unix_time_seconds))
        /\ call' = NoTerminal
        /\ UNCHANGED <<args, built, lastCall, loop>>

NewPexpire ==
    \E key \in Keys, milliseconds \in U64s :
        /\ CanStart
        /\ builder' = Started(pexpire(key, milliseconds), Base("pexpire", key, "", milliseconds))
        /\ call' = NoTerminal
        /\ UNCHANGED <<args, built, lastCall, loop>>

NewPexpireat ==
    \E key \in Keys, unix_time_milliseconds \in U64s :
        /\ CanStart
        /\ builder' = Started(pexpireat(key, unix_time_milliseconds),
                              Base("pexpireat", key, "", unix_time_milliseconds))
        /\ call' = NoTerminal
        /\ UNCHANGED <<args, built, lastCall, loop>>

NewRestore ==
    \E key \in Keys, ttl_ \in Ttls, serialized_value \in Payloads :
        /\ CanStart
        /\ builder' = Started(restore(key, ttl_, serialized_value),
                              Base("restore", key, serialized_value, ttl_))
        /\ call' = NoTerminal
        /\ UNCHANGED <<args, built, lastCall, loop>>

NewScan ==
    \E cursor \in Cursors :
        /\ CanStart
        /\ builder' = Started(scan(cursor), Base("scan", "", "", cursor))
        /\ call' = NoTerminal
        /\ UNCHANGED <<args, built, lastCall, loop>>

(***************************************************************************)
(* The caller: chaining modifiers (each consumes self and returns Self)    *)
(***************************************************************************)
CanChain(kind) ==
    /\ loop.state = "off"
    /\ builder.kind = kind
    /\ builder.phase = "Building"
    /\ Len(builder.calls) < MaxMods

\* the builder returned by a modifier, with the record of the call made
Chained(b, m, n, s) ==
    [b EXCEPT !.calls = Append(builder.calls, [m |-> m, n |-> n, s |-> s])]

CopyDb ==
    \E destination_db \in DbIndexes :
        /\ CanChain("Copy")
        /\ builder' = Chained(Copy_db(builder, destination_db), "db", destination_db, "")
        /\ UNCHANGED <<args, built, lastCall, call, loop>>

CopyReplace ==
    /\ CanChain("Copy")
    /\ builder' = Chained(Copy_replace(builder), "replace", 0, "")
    /\ UNCHANGED <<args, built, lastCall, call, loop>>

RestoreReplace ==
    /\ CanChain("Restore")
    /\ builder' = Chained(Restore_replace(builder), "replace", 0, "")
    /\ UNCHANGED <<args, built, lastCall, call, loop>>

RestoreAbsTtl ==
    /\ CanChain("Restore")
    /\ builder' = Chained(Restore_abs_ttl(builder), "abs_ttl", 0, "")
    /\ UNCHANGED <<args, built, lastCall, call, loop>>

RestoreIdleTime ==
    \E seconds \in IdleTimes :
        /\ CanChain("Restore")
        /\ builder' = Chained(Restore_idle_time(builder, seconds), "idle_time", seconds, "")
        /\ UNCHANGED <<args, built, lastCall, call, loop>>

RestoreFreq ==
    \E frequency \in Freqs :
        /\ CanChain("Restore")
        /\ builder' = Chained(Restore_freq(builder, frequency), "freq", frequency, "")
        /\ UNCHANGED <<args, built, lastCall, call, loop>>

ScanMatch ==
    \E pattern \in Patterns :
        /\ CanChain("Scan")
        /\ builder' = Chained(Scan_match_(builder, pattern), "match_", 0, pattern)
        /\ UNCHANGED <<args, built, lastCall, call, loop>>

ScanCount ==
    \E count \in Counts :
        /\ CanChain("Scan")
        /\ builder' = Chained(Scan_count(builder, count), "count", count, "")
        /\ UNCHANGED <<args, built, lastCall, call, loop>>

ScanType ==
    \E type__ \in Types :
        /\ CanChain("Scan")
        /\ builder' = Chained(Scan_type_(builder, type__), "type_", 0, type__)
        /\ UNCHANGED <<args, built, lastCall, call, loop>>

(***************************************************************************)
(* The caller: terminal methods of the builders (each consumes self)       *)
(***************************************************************************)
CanFinish_borrowed(kind) ==
    /\ loop.state = "off"
    /\ call.pc # "pending"
    /\ builder.kind = kind

CanFinish(kind) ==
    /\ loop.state = "off"
    /\ call.pc # "pending"
    /\ builder.kind = kind
    /\ builder.phase = "Building"

\* self is moved into the terminal method; pending is what the method returns
Finish(via, pending) ==
    /\ builder' = [builder EXCEPT !.phase = "Submitted", !.via = via, !.finals = @ + 1]
    /\ call' = [pending EXCEPT !.method = builder.kind \o "::" \o via]
    /\ UNCHANGED <<args, built, lastCall, loop>>

CopyExecute == CanFinish("Copy") /\ Finish("execute", Copy_execute(builder))

ExpireNx == CanFinish("Expire") /\ Finish("nx", Expire_nx(builder))

ExpireXx == CanFinish("Expire") /\ Finish("xx", Expire_xx(builder))

ExpireGt == CanFinish("Expire") /\ Finish("gt", Expire_gt(builder))

ExpireLt == CanFinish("Expire") /\ Finish("lt", Expire_lt(builder))

ExpireExecute == CanFinish("Expire") /\ Finish("execute", Expire_execute(builder))

RestoreExecute == CanFinish("Restore") /\ Finish("execute", Restore_execute(builder))

ScanExecute == CanFinish("Scan") /\ Finish("execute", Scan_execute(builder))

(***************************************************************************)
(* The caller: direct methods                                              *)
(***************************************************************************)
\* a direct method called with the given input
Direct(method, input, pending) ==
    /\ call' = [pending EXCEPT !.method = method, !.input = input]
    /\ UNCHANGED <<args, built, lastCall, builder, loop>>

Del == \E keys_ \in KeyArgs : CanStart /\ Direct("del", keys_, del(keys_))

Dump == \E key \in Keys : CanStart /\ Direct("dump", StrArg(key), dump(key))

Exists == \E keys_ \in KeyArgs : CanStart /\ Direct("exists", keys_, exists(keys_))

Expiretime == \E key \in Keys : CanStart /\ Direct("expiretime", StrArg(key), expiretime(key))

KeysOf == \E pattern \in Patterns : CanStart /\ Direct("keys", StrArg(pattern), keys(pattern))

Move == \E key \in Keys, db \in DbIndexes : CanStart /\ Direct("move_", StrArg(key), move_(key, db))

ObjectEncoding == \E key \in Keys : CanStart /\ Direct("object_encoding", StrArg(key), object_encoding(key))

ObjectFreq == \E key \in Keys : CanStart /\ Direct("object_freq", StrArg(key), object_freq(key))

ObjectIdleTime == \E key \in Keys : CanStart /\ Direct("object_idle_time", StrArg(key), object_idle_time(key))

ObjectRefcount == \E key \in Keys : CanStart /\ Direct("object_refcount", StrArg(key), object_refcount(key))

Persist == \E key \in Keys : CanStart /\ Direct("persist", StrArg(key), persist(key))

Pexpiretime == \E key \in Keys : CanStart /\ Direct("pexpiretime", StrArg(key), pexpiretime(key))

Pttl == \E key \in Keys : CanStart /\ Direct("pttl", StrArg(key), pttl(key))

Randomkey == CanStart /\ Direct("randomkey", StrArg(""), randomkey)

Rename ==
    \E key \in Keys, new_key \in Keys :
        CanStart /\ Direct("rename", CollArg(<<key, new_key>>), rename(key, new_key))

Renamenx ==
    \E key \in Keys, new_key \in Keys :
        CanStart /\ Direct("renamenx", CollArg(<<key, new_key>>), renamenx(key, new_key))

Ttl == \E key \in Keys : CanStart /\ Direct("ttl", StrArg(key), ttl(key))

Type == \E key \in Keys : CanStart /\ Direct("type_", StrArg(key), type_(key))

Unlink == \E keys_ \in KeyArgs : CanStart /\ Direct("unlink", keys_, unlink(keys_))

Flushdb ==
    \E flushing_mode \in FlushingModes :
        CanStart /\ Direct("flushdb", StrArg(flushing_mode), flushdb(flushing_mode))

Flushall ==
    \E flushing_mode \in FlushingModes :
        CanStart /\ Direct("flushall", StrArg(flushing_mode), flushall(flushing_mode))

(***************************************************************************)
(* The Sender resolves the pending call and the caller gets the result     *)
(***************************************************************************)
\* what the future returned by the terminal method yields for outcome o
Awaited(c, o) ==
    CASE c.method = "dump" -> dump_await(send_into_await(c.target, o))
      [] c.method \in {"flushdb", "flushall"} -> into_unit(send_await(o))
      [] OTHER -> send_into_await(c.target, o)

Resolved(c, o) == [c EXCEPT !.pc = "done", !.outcome = o, !.result = Awaited(c, o)]

Resolve ==
    \E o \in Outcomes :
        /\ loop.state = "off"
        /\ call.pc = "pending"
        /\ call' = Resolved(call, o)
        /\ UNCHANGED <<args, built, lastCall, builder, loop>>

\* the caller has observed the result: the future, and the builder that was
\* moved into it, are gone
Return ==
    /\ loop.state = "off"
    /\ call.pc = "done"
    /\ call' = NoTerminal
    /\ builder' = [NoBuilder EXCEPT !.tag = NextTag]
    /\ UNCHANGED <<args, built, lastCall, loop>>

Next ==
    \/ NewCopy \/ NewExpire \/ NewExpireat \/ NewPexpire \/ NewPexpireat
    \/ NewRestore \/ NewScan
    \/ CopyDb \/ CopyReplace
    \/ RestoreReplace \/ RestoreAbsTtl \/ RestoreIdleTime \/ RestoreFreq
    \/ ScanMatch \/ ScanCount \/ ScanType
    \/ CopyExecute \/ ExpireNx \/ ExpireXx \/ ExpireGt \/ ExpireLt \/ ExpireExecute
    \/ RestoreExecute \/ ScanExecute
    \/ Del \/ Dump \/ Exists \/ Expiretime \/ KeysOf \/ Move
    \/ ObjectEncoding \/ ObjectFreq \/ ObjectIdleTime \/ ObjectRefcount
    \/ Persist \/ Pexpiretime \/ Pttl \/ Randomkey \/ Rename \/ Renamenx
    \/ Ttl \/ Type \/ Unlink \/ Flushdb \/ Flushall
    \/ Resolve \/ Return

Spec == Init /\ [][Next]_vars

(***************************************************************************)
(* The caller's cursor loop: start at 0, re-issue scan with the cursor of  *)
(* the last reply until that cursor is 0                                   *)
(***************************************************************************)
LoopReplies == ScanReplies \cup {Transport, ErrorR("ERR no such key"), ArrayR(<<IntR(17)>>)}

LoopBegin ==
    /\ loop.state = "off"
    /\ call.pc = "idle"
    /\ loop' = [state |-> "running", cursor |-> 0, asked |-> 0, iter |-> 0]
    /\ UNCHANGED <<args, built, lastCall, builder, call>>

\* one iteration's request: scan(cursor).execute(), or with a COUNT hint
\* scan(cursor).count(hint).execute()
LoopRequest ==
    \E hint \in {0} \cup Counts :
        /\ loop.state = "running"
        /\ call.pc # "pending"
        /\ LET s == Started(scan(loop.cursor), Base("scan", "", "", loop.cursor))
               b == IF hint = 0 THEN s
                    ELSE [Scan_count(s, hint) EXCEPT
                             !.calls = <<[m |-> "count", n |-> hint, s |-> ""]>>]
           IN  /\ builder' = [b EXCEPT !.phase = "Submitted", !.via = "execute",
                                       !.finals = @ + 1]
               /\ call' = [Scan_execute(b) EXCEPT !.method = "Scan::execute"]
        /\ loop' = [loop EXCEPT !.asked = loop.cursor]
        /\ UNCHANGED <<args, built, lastCall>>

\* the reply arrives: stop on a failure or on cursor 0, else carry the cursor on
LoopReply ==
    \E o \in LoopReplies :
        /\ loop.state = "running"
        /\ call.pc = "pending"
        /\ LET r == Awaited(call, o) IN
             /\ call' = Resolved(call, o)
             /\ loop' = IF ~r.ok THEN [loop EXCEPT !.state = "failed"]
                        ELSE IF r.v.n = 0 THEN [loop EXCEPT !.state = "finished", !.cursor = 0]
                        ELSE [loop EXCEPT !.cursor = r.v.n,
                                          !.iter = IF @ < MaxIter THEN @ + 1 ELSE @]
        /\ UNCHANGED <<args, built, lastCall, builder>>

NextScan == LoopBegin \/ LoopRequest \/ LoopReply

SpecScan == Init /\ [][NextScan]_vars

(***************************************************************************)
(* C1: arg_if(false, m) leaves the token sequence as it was before the     *)
(* call, and arg_if(true, m) leaves it as arg(m) leaves the same starting  *)
(* buffer: the starting tokens followed by the tokens of m.                *)
(***************************************************************************)
RECURSIVE TokensOf(_)
TokensOf(a) ==
    CASE a.t = "coll" ->
            IF a.c = <<>> THEN <<>>
            ELSE <<Head(a.c)>> \o TokensOf(CollArg(Tail(a.c)))
      [] a.t = "str" -> <<a.s>>
      [] a.t = "int" -> <<Decimal(a.n)>>
      [] a.t = "f64" -> <<DecimalF64(a.n)>>

C1_ArgIf ==
    lastCall.op = "arg_if" =>
        /\ ~lastCall.condition => args = lastCall.before
        /\ lastCall.condition =>
              /\ args = arg(lastCall.before, lastCall.a)
              /\ args = lastCall.before \o TokensOf(lastCall.a)

C1_Witness ==
    /\ lastCall.op = "arg_if"
    /\ lastCall.condition
    /\ lastCall.before # <<>>
    /\ Len(args) = Len(lastCall.before) + 2

(***************************************************************************)
(* What a builder's constructor and modifiers are expected to contribute   *)
(***************************************************************************)
CommandName(base) ==
    CASE base.method = "copy"      -> "COPY"
      [] base.method = "expire"    -> "EXPIRE"
      [] base.method = "expireat"  -> "EXPIREAT"
      [] base.method = "pexpire"   -> "PEXPIRE"
      [] base.method = "pexpireat" -> "PEXPIREAT"
      [] base.method = "restore"   -> "RESTORE"
      [] base.method = "scan"      -> "SCAN"

Mandatory(base) ==
    CASE base.method = "copy"    -> <<base.s1, base.s2>>
      [] base.method = "restore" -> <<base.s1, Decimal(base.n), base.s2>>
      [] base.method = "scan"    -> <<Decimal(base.n)>>
      [] OTHER                   -> <<base.s1, Decimal(base.n)>>

FlagToken(m) ==
    CASE m = "db" -> "DB" [] m = "replace" -> "REPLACE" [] m = "abs_ttl" -> "ABSTTL"
      [] m = "idle_time" -> "IDLETIME" [] m = "freq" -> "FREQ"
      [] m = "match_" -> "MATCH" [] m = "count" -> "COUNT" [] m = "type_" -> "TYPE"
      [] m = "nx" -> "NX" [] m = "xx" -> "XX" [] m = "gt" -> "GT" [] m = "lt" -> "LT"

ValueLess == {"replace", "abs_ttl"}

ValueToken(c) ==
    CASE c.m \in {"match_", "type_"} -> c.s
      [] c.m = "freq" -> DecimalF64(c.n)
      [] OTHER -> Decimal(c.n)

OwnTokens(c) ==
    IF c.m \in ValueLess THEN <<FlagToken(c.m)>> ELSE <<FlagToken(c.m), ValueToken(c)>>

RECURSIVE ChainTokens(_)
ChainTokens(calls) ==
    IF calls = <<>> THEN <<>> ELSE OwnTokens(Head(calls)) \o ChainTokens(Tail(calls))

IsBuilder == builder.kind \in {"Copy", "Expire", "Restore", "Scan"}
Submitted == IsBuilder /\ builder.phase = "Submitted"
SentArgs == call.sent[1].args

(***************************************************************************)
(* C2: every modifier call keeps the command name and the tokens already   *)
(* appended and adds only its own tokens at the end, so a builder's        *)
(* arguments are always its mandatory arguments followed by the tokens of  *)
(* its modifier calls in the order of the calls (nothing reordered,        *)
(* removed or merged); the Command is a function of the calls made, and    *)
(* it is the Command that execute submits.                                 *)
(***************************************************************************)
C2_ChainState ==
    IsBuilder =>
        /\ builder.cmd.name = CommandName(builder.base)
        /\ builder.cmd.args = Mandatory(builder.base) \o ChainTokens(builder.calls)
        /\ (builder.phase = "Submitted" /\ builder.kind # "Expire")
              => call.sent = <<builder.cmd>>

C2_ChainStep ==
    (/\ builder.phase = "Building"
     /\ builder'.phase = "Building"
     /\ builder'.tag = builder.tag
     /\ builder' # builder)
    =>
        /\ builder'.cmd.name = builder.cmd.name
        /\ Len(builder'.calls) = Len(builder.calls) + 1
        /\ SubSeq(builder'.calls, 1, Len(builder.calls)) = builder.calls
        /\ builder'.cmd.args =
              builder.cmd.args \o OwnTokens(builder'.calls[Len(builder'.calls)])

C2_AppendOnly == []C2_ChainState /\ [][C2_ChainStep]_vars

C2_Witness ==
    /\ Submitted
    /\ builder.kind = "Restore"
    /\ builder.base.s2 = "REPLACE"
    /\ Len(builder.calls) = 2
    /\ builder.calls[1].m = "freq"
    /\ builder.calls[2].m = "replace"

(***************************************************************************)
(* C3: a conditional-expiry builder made by expire, expireat, pexpire or   *)
(* pexpireat with key k and amount n submits exactly [k, decimal(n), F]    *)
(* when finished through the method of flag F and exactly [k, decimal(n)]  *)
(* when finished through execute, under the entry point's command name.    *)
(***************************************************************************)
C3_ExpireTokens ==
    (Submitted /\ builder.kind = "Expire") =>
        /\ call.sent =
              << [name |-> CommandName(builder.base),
                  args |-> <<builder.base.s1, Decimal(builder.base.n)>> \o
                           (IF builder.via = "execute" THEN <<>>
                            ELSE <<FlagToken(builder.via)>>)] >>
        /\ (builder.base.n = 120 /\ builder.via = "gt")
              => SentArgs = <<builder.base.s1, "120", "GT">>

C3_Witness ==
    /\ Submitted
    /\ builder.kind = "Expire"
    /\ builder.base.method = "pexpireat"
    /\ builder.base.n = 120
    /\ builder.via = "gt"
    /\ call.pc = "done"

(***************************************************************************)
(* C4: copy(source, destination).db(n).replace().execute() submits a COPY  *)
(* Command whose arguments are exactly                                     *)
(* [source, destination, "DB", decimal(n), "REPLACE"] (n = 3: "3").        *)
(***************************************************************************)
DbThenReplace ==
    /\ Submitted
    /\ builder.kind = "Copy"
    /\ Len(builder.calls) = 2
    /\ builder.calls[1].m = "db"
    /\ builder.calls[2].m = "replace"

OneOrMany == {"del", "exists", "unlink"}

C5_OneOrMany ==
    (call.pc # "idle" /\ call.method \in OneOrMany) =>
        /\ Len(call.sent) = 1
        /\ call.input.t = "str" => SentArgs = <<call.input.s>>
        /\ (call.input.t = "coll" /\ Len(call.input.c) = 1) => SentArgs = <<call.input.c[1]>>
        /\ call.input.t = "coll" =>
              /\ Len(SentArgs) = Len(call.input.c)
              /\ \A i \in 1..Len(call.input.c) : SentArgs[i] = call.input.c[i]

C5_Witness ==
    /\ call.pc # "idle"
    /\ call.method = "unlink"
    /\ call.input = CollArg(<<"DB", "key">>)
    /\ SentArgs = <<"DB", "key">>

(***************************************************************************)
(* C6: a builder goes Building -> Submitted: a step that keeps it Building *)
(* is a modifier call and leaves a strictly longer argument list, a        *)
(* Submitted builder never changes again (no modifier, no second           *)
(* finalisation), a builder is finalised at most once, and the step to     *)
(* Submitted is made by a terminal method only, which is execute or, for   *)
(* Expire, one of nx, xx, gt, lt.                                          *)
(***************************************************************************)
ExpireFlags == {"nx", "xx", "gt", "lt"}

C6_LifecycleState ==
    IsBuilder =>
        /\ builder.phase \in {"Building", "Submitted"}
        /\ builder.finals <= 1
        /\ builder.phase = "Submitted" <=> builder.finals = 1
        /\ builder.phase = "Submitted" =>
              /\ builder.via \in (IF builder.kind = "Expire"
                                  THEN ExpireFlags \cup {"execute"} ELSE {"execute"})
              /\ call.pc \in {"pending", "done"}
              /\ Len(call.sent) = 1

C6_LifecycleStep ==
    (IsBuilder /\ builder'.tag = builder.tag) =>
        /\ builder.phase = "Submitted" => builder' = builder
        /\ (builder.phase = "Building" /\ builder' # builder) =>
              \/ /\ builder'.phase = "Building"
                 /\ Len(builder'.cmd.args) > Len(builder.cmd.args)
                 /\ UNCHANGED call
              \/ /\ builder'.phase = "Submitted"
                 /\ builder'.cmd = builder.cmd
                 /\ call'.pc = "pending"

C6_Lifecycle == []C6_LifecycleState /\ [][C6_LifecycleStep]_vars

C6_Witness ==
    /\ Submitted
    /\ builder.kind = "Expire"
    /\ builder.via = "nx"
    /\ call.pc = "done"

\* the claim as worded: only execute takes a builder to Submitted
C6_OnlyExecute == Submitted => builder.via = "execute"

(***************************************************************************)
(* C7: every Command a builder submits starts with its mandatory           *)
(* arguments in constructor order, and its optional flags follow in the    *)
(* order the modifier methods were called: for COPY, DB <n> comes before   *)
(* REPLACE when db is called before replace and after it when replace is   *)
(* called first.                                                           *)
(***************************************************************************)
Width(c) == IF c.m \in ValueLess THEN 1 ELSE 2

RECURSIVE WidthSum(_, _)
WidthSum(calls, k) == IF k = 0 THEN 0 ELSE WidthSum(calls, k - 1) + Width(calls[k])

\* the position of the flag token of the i-th modifier call
FlagAt(i) == Len(Mandatory(builder.base)) + WidthSum(builder.calls, i - 1) + 1

C7_CallOrder ==
    Submitted =>
        LET m == Mandatory(builder.base) IN
        /\ Len(SentArgs) >= Len(m)
        /\ SubSeq(SentArgs, 1, Len(m)) = m
        /\ \A i \in 1..Len(builder.calls) :
              /\ FlagAt(i) <= Len(SentArgs)
              /\ SentArgs[FlagAt(i)] = FlagToken(builder.calls[i].m)
        /\ (builder.kind = "Copy" /\ Len(builder.calls) = 2
               /\ builder.calls[1].m = "replace" /\ builder.calls[2].m = "db")
              => SentArgs = m \o <<"REPLACE", "DB", Decimal(builder.calls[2].n)>>
        /\ (builder.kind = "Copy" /\ Len(builder.calls) = 2
               /\ builder.calls[1].m = "db" /\ builder.calls[2].m = "replace")
              => SentArgs = m \o <<"DB", Decimal(builder.calls[1].n), "REPLACE">>

C7_Witness ==
    /\ Submitted
    /\ builder.kind = "Copy"
    /\ Len(builder.calls) = 2
    /\ builder.calls[1].m = "replace"
    /\ builder.calls[2].m = "db"

\* the claim as worded: COPY's flags in wire order, DB <n> before REPLACE,
\* whatever order db and replace were called in
RECURSIVE CopyWireOrder(_, _)
CopyWireOrder(calls, m) ==
    IF calls = <<>> THEN <<>>
    ELSE (IF Head(calls).m = m THEN OwnTokens(Head(calls)) ELSE <<>>)
         \o CopyWireOrder(Tail(calls), m)

C7_WireOrder ==
    (Submitted /\ builder.kind = "Copy") =>
        SentArgs = Mandatory(builder.base)
                   \o CopyWireOrder(builder.calls, "db")
                   \o CopyWireOrder(builder.calls, "replace")

(***************************************************************************)
(* C8: in every Command of a Copy, Restore or Scan builder, the tokens     *)
(* after the mandatory arguments are the modifier calls' tokens and no     *)
(* others: a value-taking flag (DB, IDLETIME, FREQ, MATCH, COUNT, TYPE)    *)
(* is immediately followed by its one value token, a value-less flag       *)
(* (REPLACE, ABSTTL) is one literal uppercase token.                       *)
(***************************************************************************)
ValueTakingFlags == {"DB", "IDLETIME", "FREQ", "MATCH", "COUNT", "TYPE"}
ValueLessFlags == {"REPLACE", "ABSTTL"}

C8_FlagShape ==
    builder.kind \in {"Copy", "Restore", "Scan"} =>
        LET a == builder.cmd.args
            n == Len(builder.calls)
        IN  /\ Len(a) = Len(Mandatory(builder.base)) + WidthSum(builder.calls, n)
            /\ \A i \in 1..n :
                  LET c == builder.calls[i]
                      at == FlagAt(i)
                      next == IF i = n THEN Len(a) + 1 ELSE FlagAt(i + 1)
                  IN  /\ a[at] \in ValueTakingFlags \cup ValueLessFlags
                      /\ a[at] = FlagToken(c.m)
                      /\ a[at] \in ValueLessFlags => next = at + 1
                      /\ a[at] \in ValueTakingFlags =>
                            /\ next = at + 2
                            /\ a[at + 1] = ValueToken(c)

C8_Witness ==
    /\ builder.kind = "Scan"
    /\ builder.phase = "Building"
    /\ builder.cmd.args = <<"17", "MATCH", "COUNT", "COUNT", "10">>

(***************************************************************************)
(* C9: a terminal call hands its Command to the Sender exactly once,       *)
(* whatever the outcome; a transport failure, an error reply of the store  *)
(* and a reply that does not convert to the requested type each come back  *)
(* to the caller as that failure, never as a success value and never       *)
(* after a second send.                                                    *)
(***************************************************************************)
\* the reply shapes that convert to what the terminal method returns
Converts(c, o) ==
    CASE c.method = "dump"  -> o.t = "bulk"
      [] c.target = "bool"  -> o.t = "int"
      [] c.target = "int"   -> o.t = "int"
      [] c.target = "string" -> o.t = "bulk"
      [] c.target = "scan"  ->
            /\ o.t = "array"
            /\ Len(o.a) >= 2
            /\ o.a[1].t = "int"
            /\ o.a[2].t = "array"
            /\ \A i \in 1..Len(o.a[2].a) : o.a[2].a[i].t = "bulk"
      [] OTHER -> TRUE

C9_SentOnce ==
    call.pc # "idle" =>
        /\ Len(call.sent) = 1
        /\ (Submitted /\ builder.kind # "Expire") => call.sent[1] = builder.cmd
        /\ call.pc = "done" =>
              /\ call.outcome.t = "transport" =>
                    (~call.result.ok /\ call.result.err = "transport")
              /\ call.outcome.t = "error" =>
                    (/\ ~call.result.ok
                     /\ call.result.err = "store"
                     /\ call.result.msg = call.outcome.s)
              /\ (call.outcome.t \notin {"transport", "error"} /\ ~Converts(call, call.outcome))
                    => (~call.result.ok /\ call.result.err \in {"conversion", "internal"})
              /\ call.result.ok =>
                    (call.outcome.t \notin {"transport", "error"} /\ Converts(call, call.outcome))

C9_Witness ==
    /\ call.pc = "done"
    /\ call.method = "dump"
    /\ call.outcome = Transport
    /\ ~call.result.ok
    /\ Len(call.sent) = 1

(***************************************************************************)
(* C10: scan passes the cursor through: every request of the caller's      *)
(* loop is a SCAN Command whose first argument is the decimal text of the  *)
(* cursor the caller supplied, which is 0 at the start and the cursor of   *)
(* the previous reply afterwards; the loop is finished exactly when a      *)
(* reply decoded with cursor 0, whatever its batch, and as long as it is   *)
(* not finished the next request can always be made.                       *)
(***************************************************************************)
C10_CursorLoop ==
    /\ (loop.state # "off" /\ call.pc # "idle") =>
          /\ call.sent[1].name = "SCAN"
          /\ SentArgs[1] = Decimal(loop.asked)
          /\ loop.asked = 17 => SentArgs[1] = "17"
          /\ call.pc = "pending" => loop.asked = loop.cursor
          /\ (call.pc = "done" /\ call.result.ok) =>
                /\ call.result.v.n = call.outcome.a[1].n
                /\ loop.cursor = call.result.v.n
                /\ loop.state = (IF call.result.v.n = 0 THEN "finished" ELSE "running")
    /\ loop.state = "finished" =>
          (call.pc = "done" /\ call.result.ok /\ call.result.v.n = 0)
    /\ (loop.state = "running" /\ call.pc = "idle") => (loop.cursor = 0 /\ loop.iter = 0)
    /\ (loop.state = "running" /\ call.pc # "pending") => ENABLED LoopRequest

C10_Witness ==
    /\ loop.state = "finished"
    /\ loop.iter = MaxIter
    /\ loop.asked = 120
    /\ call.result.v.a = <<"key", "DB">>

(***************************************************************************)
(* C11: dump returns the payload of a binary-string reply unchanged,       *)
(* whatever the bytes are (text, digits, raw bytes, nothing); a nil, an    *)
(* integer or an array reply makes it fail with an error of its own; and   *)
(* a failure of send_into (no reply, an error reply) comes back as it is.  *)
(***************************************************************************)
C11_Dump ==
    (call.pc = "done" /\ call.method = "dump") =>
        /\ call.sent = <<[name |-> "DUMP", args |-> <<call.input.s>>]>>
        /\ call.outcome.t = "bulk" =>
              (/\ call.result.ok
               /\ call.result.v.kind = "bytes"
               /\ call.result.v.s = call.outcome.s)
        /\ call.outcome.t \in {"nil", "int", "array"} =>
              (~call.result.ok /\ call.result.err = "internal")
        /\ call.outcome.t \in {"transport", "error"} =>
              (/\ ~call.result.ok
               /\ call.result = send_into_await("value", call.outcome)
               /\ call.result.err = (IF call.outcome.t = "error" THEN "store" ELSE "transport")
               /\ call.result.msg = call.outcome.s)

C11_Witness ==
    /\ call.pc = "done"
    /\ call.method = "dump"
    /\ call.outcome = BulkR("17")
    /\ call.result = Ok(BytesV("17"))

(***************************************************************************)
(* C12: build() returns exactly the tokens appended so far, in order, and  *)
(* leaves the source buffer empty (len() = 0, is_empty()); a build() made  *)
(* right after a build() returns an empty buffer; and the tokens appended  *)
(* after a build() never show up in the buffer it returned.                *)
(***************************************************************************)
C12_BuildState ==
    lastCall.op = "build" =>
        /\ built = lastCall.before
        /\ args = <<>>
        /\ len(args) = 0
        /\ is_empty(args)

C12_BuildStep ==
    /\ (lastCall.op = "build" /\ lastCall'.op = "build" /\ lastCall'.calls # lastCall.calls)
          => (built' = <<>> /\ is_empty(args'))
    /\ lastCall'.op # "build" => built' = built
    /\ (lastCall.op = "build" /\ lastCall'.op \in {"arg", "arg_ref"})
          => args' = TokensOf(lastCall'.a)

C12_Build == []C12_BuildState /\ [][C12_BuildStep]_vars

C12_Witness ==
    /\ lastCall.op = "build"
    /\ lastCall.calls = 2
    /\ built = <<"a", "b">>
    /\ is_empty(args)

(***************************************************************************)
(* C13: flushdb and flushall each hand the Sender one Command, named       *)
(* FLUSHDB respectively FLUSHALL whatever the mode, with no argument for   *)
(* FlushingMode::Default, the one token ASYNC for Async and the one token  *)
(* SYNC for Sync.                                                          *)
(***************************************************************************)
FlushTokens(mode) ==
    CASE mode = "Default" -> <<>>
      [] mode = "Async"   -> <<"ASYNC">>
      [] mode = "Sync"    -> <<"SYNC">>

C13_Flush ==
    (call.pc # "idle" /\ call.method \in {"flushdb", "flushall"}) =>
        /\ Len(call.sent) = 1
        /\ call.sent[1].name = (IF call.method = "flushdb" THEN "FLUSHDB" ELSE "FLUSHALL")
        /\ SentArgs = FlushTokens(call.input.s)
        /\ Len(SentArgs) <= 1

C13_Witness ==
    /\ call.pc = "done"
    /\ call.method = "flushall"
    /\ call.input.s = "Sync"
    /\ call.sent = <<[name |-> "FLUSHALL", args |-> <<"SYNC">>]>>
    /\ call.result.ok

====
